---- MODULE Spec2Model ----
(***************************************************************************)
(* Nautobot jobs: remote-session jobs (show_port, shutdown_interface,      *)
(* get_disabled_port, show_ports, junos_1), compliance jobs (data_quality) *)
(* and the spreadsheet import (import_csv).                                *)
(*                                                                         *)
(* Python strings are sequences of one-character strings, so that          *)
(* str.lower, the `in` substring test, str.split and str.strip are         *)
(* computed rather than assumed.  An optional value is << >> (None) or     *)
(* <<v>>.                                                                  *)
(***************************************************************************)
EXTENDS Integers, Sequences, FiniteSets, TLC

\* ------------------------------------------------------------------------
\* Bounds of the model (not program constants)
\* ------------------------------------------------------------------------
MaxDevices == 2
MaxRows == 2

\* ------------------------------------------------------------------------
\* Python values
\* ------------------------------------------------------------------------
None == << >>
Some(v) == <<v>>
IsNone(o) == o = << >>
Val(o) == o[1]

UpperChars == <<"A","B","C","D","E","F","G","H","I","J","K","L","M",
                "N","O","P","Q","R","S","T","U","V","W","X","Y","Z">>
LowerChars == <<"a","b","c","d","e","f","g","h","i","j","k","l","m",
                "n","o","p","q","r","s","t","u","v","w","x","y","z">>

\* str.lower() on one character
LowerChar(c) ==
    IF \E i \in 1..26 : UpperChars[i] = c
    THEN LowerChars[CHOOSE i \in 1..26 : UpperChars[i] = c]
    ELSE c

\* str.lower()
Lower(s) == [i \in 1..Len(s) |-> LowerChar(s[i])]

\* `sub in s` on strings
Contains(s, sub) ==
    \E i \in 0..(Len(s) - Len(sub)) :
        \A k \in 1..Len(sub) : s[i + k] = sub[k]

IsSpace(c) == c \in {" ", "\n", "\t"}

\* str.split(sep)[0] for a one-character separator
SplitFirst(s, sep) ==
    IF \E i \in 1..Len(s) : s[i] = sep
    THEN SubSeq(s, 1, (CHOOSE i \in 1..Len(s) :
                          s[i] = sep /\ \A k \in 1..(i - 1) : s[k] # sep) - 1)
    ELSE s

\* str.split(): the whitespace-delimited tokens of s, in order
RECURSIVE SplitFrom(_, _, _)
SplitFrom(s, i, cur) ==
    IF i > Len(s)
    THEN IF cur = << >> THEN << >> ELSE <<cur>>
    ELSE IF IsSpace(s[i])
         THEN IF cur = << >>
              THEN SplitFrom(s, i + 1, << >>)
              ELSE <<cur>> \o SplitFrom(s, i + 1, << >>)
         ELSE SplitFrom(s, i + 1, Append(cur, s[i]))

Split(s) == SplitFrom(s, 1, << >>)

\* str.splitlines(): the lines of s, without the line ends
RECURSIVE LinesFrom(_, _, _)
LinesFrom(s, i, cur) ==
    IF i > Len(s)
    THEN IF cur = << >> THEN << >> ELSE <<cur>>
    ELSE IF s[i] = "\n"
         THEN <<cur>> \o LinesFrom(s, i + 1, << >>)
         ELSE LinesFrom(s, i + 1, Append(cur, s[i]))

SplitLines(s) == LinesFrom(s, 1, << >>)

\* str.strip()
Strip(s) ==
    IF \A i \in 1..Len(s) : IsSpace(s[i])
    THEN << >>
    ELSE LET a == CHOOSE i \in 1..Len(s) :
                     ~IsSpace(s[i]) /\ \A k \in 1..(i - 1) : IsSpace(s[k])
             b == CHOOSE i \in 1..Len(s) :
                     ~IsSpace(s[i]) /\ \A k \in (i + 1)..Len(s) : IsSpace(s[k])
         IN SubSeq(s, a, b)


\* ------------------------------------------------------------------------
\* String literals of the source
\* ------------------------------------------------------------------------
s_junos == <<"j","u","n","o","s">>
s_Junos == <<"J","u","n","o","s">>
s_sros == <<"s","r","o","s">>
s_addr4 == <<"1","0",".","1","/","8">>
s_addr6 == <<"f","d",":",":","1","/","6","4">>
s_port == <<"1","/","1">>
s_empty == << >>
s_error == <<"e","r","r","o","r",":">>
s_link_up == <<"p","h","y","s","i","c","a","l"," ","l","i","n","k"," ","i","s"," ","u","p">>
s_link_down == <<"p","h","y","s","i","c","a","l"," ","l","i","n","k"," ","i","s"," ","d","o","w","n">>
s_proto_up == <<"p","r","o","t","o","c","o","l"," ","i","s"," ","u","p">>
s_proto_down == <<"p","r","o","t","o","c","o","l"," ","i","s"," ","d","o","w","n">>
s_admin_down == <<"a","d","m","i","n"," ","d","o","w","n">>
s_administratively_down == <<"a","d","m","i","n","i","s","t","r","a","t","i","v","e","l","y"," ","d","o","w","n">>
s_lag == <<"l","a","g">>
s_mgmt == <<"m","g","m","t">>
s_down == <<"d","o","w","n">>

\* ------------------------------------------------------------------------
\* State
\* ------------------------------------------------------------------------
VARIABLES
    job,        \* the job method being run
    inp,        \* its arguments and the inventory/environment it reads
    pc,         \* position of the run: start, connecting, send, waiting, loop, done
    sess,       \* state of the remote session of the run
    connects,   \* ConnectHandler calls made so far (their parameters)
    sent,       \* commands submitted on the session, in order
    responses,  \* raw responses received, in order
    result,     \* what the run returned, raised or logged last
    idx,        \* number of devices / device groups the loop has consumed
    findings,   \* per-device log records emitted by the loop, in order
    stats       \* counters and store effects of the spreadsheet import

vars == <<job, inp, pc, sess, connects, sent, responses, result, idx, findings, stats>>

NoResult == [kind |-> "none"]
Raised(m) == [kind |-> "raised", msg |-> m, exc |-> "none"]
RaisedExc(e) == [kind |-> "raised", msg |-> "uncaught", exc |-> e]
Returned(m, e) == [kind |-> "returned", msg |-> m, exc |-> e]
Logged(level, m, e) == [kind |-> "logged", level |-> level, msg |-> m, exc |-> e]
ConnectWith(p) == [kind |-> "connect", params |-> p]

\* Outcomes of ConnectHandler(...) other than success, and of a command
ConnectExc == {"NetmikoTimeoutException", "NetmikoAuthenticationException", "Exception"}
CommandExc == {"NetmikoTimeoutException", "Exception"}

SessionJobs == {"GetInterfaceStatus.run", "JunosDisableInterface.run",
                "NokiaInterfaceSelector.interface_choices", "NokiaInterfaceSelector.run",
                "show_ports.interface_choices",
                "JunosInterfaceStatusJob.run", "JunosInterfaceStatusJobWithEnvCreds.run"}

\* ------------------------------------------------------------------------
\* show_port.py: GetInterfaceStatus.run, up to the ConnectHandler call
\* ------------------------------------------------------------------------
GetInterfaceStatus_prepare(i) ==
    IF IsNone(i.primary_ip4)
    THEN Raised("Device has no primary IPv4 address.")
    ELSE IF ~i.secrets_group
    THEN Raised("Device has no Secrets Group assigned.")
    ELSE IF i.context_raises
    THEN Raised("Failed to retrieve device credentials.")
    ELSE IF ~({"username", "password"} \subseteq DOMAIN i.context)
    THEN Raised("Secrets missing required keys.")
    ELSE ConnectWith([device_type |-> "nokia_sros",
                      host |-> Some(SplitFirst(Val(i.primary_ip4), "/")),
                      username |-> Some(i.context["username"]),
                      password |-> Some(i.context["password"])])

GetInterfaceStatus_commands(i) ==
    << [call |-> "send_command", text |-> <<"show port", i.interface_name>>] >>

\* variant: the generic handler comes first and takes every exception
GetInterfaceStatus_connect_error_generic(e) ==
    Raised("Unexpected error during connection or command.")

GetInterfaceStatus_connect_error(e) ==
    CASE e = "NetmikoTimeoutException" -> Raised("Connection timed out.")
      [] e = "NetmikoAuthenticationException" -> Raised("Authentication failed.")
      [] OTHER -> Raised("Unexpected error during connection or command.")

\* the same try block covers the command, and its handlers do not disconnect
GetInterfaceStatus_command_error(e) == GetInterfaceStatus_connect_error(e)

\* lines 68-85: first line containing the interface name, columns 1 and 2
RECURSIVE GetInterfaceStatus_scan(_, _, _)
GetInterfaceStatus_scan(lines, k, name) ==
    IF k > Len(lines)
    THEN [admin_state |-> None, port_state |-> None]
    ELSE IF Contains(lines[k], name)
         THEN LET parts == Split(lines[k])
              IN IF Len(parts) >= 3
                 THEN [admin_state |-> Some(parts[2]), port_state |-> Some(parts[3])]
                 ELSE [admin_state |-> None, port_state |-> None]
         ELSE GetInterfaceStatus_scan(lines, k + 1, name)

GetInterfaceStatus_parse(i, output) ==
    LET st == GetInterfaceStatus_scan(SplitLines(output), 1, i.interface_name)
    IN IF ~IsNone(st.admin_state) /\ ~IsNone(st.port_state)
       THEN [kind |-> "logged", level |-> "success", msg |-> "Interface status", exc |-> "none",
             admin_state |-> Val(st.admin_state), port_state |-> Val(st.port_state)]
       ELSE [kind |-> "logged", level |-> "info", msg |-> "Could not parse interface status",
             exc |-> "none", raw |-> output]


GetInterfaceStatus_disconnects == [success |-> TRUE, command_error |-> FALSE]

\* ------------------------------------------------------------------------
\* shutdown_interface.py: JunosDisableInterface.run
\* ------------------------------------------------------------------------
JunosDisableInterface_prepare(i) ==
    IF i.interface.device # i.device.id
    THEN Returned("Error: Interface does not belong to device", "none")
    ELSE IF IsNone(i.device.primary_ip)
    THEN RaisedExc("AttributeError")
    ELSE ConnectWith([device_type |-> "juniper_junos",
                      host |-> Some(SplitFirst(Val(i.device.primary_ip), "/")),
                      username |-> Some("your_ssh_username"),
                      password |-> Some("your_ssh_password"),
                      timeout |-> 10])

JunosDisableInterface_commands(i) ==
    << [call |-> "send_config_set",
        text |-> <<"configure", <<"set interfaces", i.interface.name, "disable">>,
                   "commit", "exit">>] >>

JunosDisableInterface_connect_error(e) ==
    IF e \in {"NetmikoTimeoutException", "NetmikoAuthenticationException"}
    THEN Returned("Connection error", e)
    ELSE RaisedExc(e)

JunosDisableInterface_command_error(e) == Returned("Error during interface shutdown", e)

JunosDisableInterface_success(i) == Returned("Interface has been disabled", "none")

JunosDisableInterface_disconnects == [success |-> TRUE, command_error |-> FALSE]

\* ------------------------------------------------------------------------
\* get_disabled_port.py and show_ports.py: NokiaInterfaceSelector
\* ------------------------------------------------------------------------
EmptyDict == [k \in {} |-> None]
DictGet(d, k) == IF k \in DOMAIN d THEN Some(d[k]) ELSE None
Falsy(o) == IsNone(o) \/ Val(o) = ""

Choices(m, e, c) == [kind |-> "returned", msg |-> m, exc |-> e, choices |-> c]

\* get_disabled_port.py is_valid_port
is_valid_port(name, admin_state, speed) ==
    IF IsNone(name) \/ Val(name) = << >> THEN FALSE
    ELSE IF speed # Some("rate-100g") THEN FALSE
    ELSE IF IsNone(admin_state) \/ Val(admin_state) = << >>
            \/ Lower(Val(admin_state)) # s_down THEN FALSE
    ELSE IF Contains(Lower(Val(name)), s_lag) \/ Contains(Lower(Val(name)), s_mgmt) THEN FALSE
    ELSE TRUE

\* show_ports.py is_valid_port: admin_state.lower() on None raises; "raise" is that outcome
show_ports_is_valid_port(name, admin_state, speed) ==
    IF IsNone(name) \/ Val(name) = << >> THEN "False"
    ELSE IF speed # Some("rate-100g") THEN "False"
    ELSE IF IsNone(admin_state) THEN "raise"
    ELSE IF Lower(Val(admin_state)) # s_down THEN "False"
    ELSE IF Contains(Lower(Val(name)), s_lag) \/ Contains(Lower(Val(name)), s_mgmt) THEN "False"
    ELSE "True"

PortRate(port) ==
    IF "ethernet" \in DOMAIN port THEN DictGet(port["ethernet"], "rate") ELSE None

\* get_disabled_port.py parse_ports
RECURSIVE parse_ports_from(_, _)
parse_ports_from(port_list, k) ==
    IF k > Len(port_list) THEN << >>
    ELSE LET port == port_list[k]
             port_name == DictGet(port, "port-id")
             rest == parse_ports_from(port_list, k + 1)
         IN IF is_valid_port(port_name, DictGet(port, "admin-state"), PortRate(port))
            THEN <<Val(port_name)>> \o rest
            ELSE rest

parse_ports(port_data) ==
    parse_ports_from(IF "port" \in DOMAIN port_data THEN port_data["port"] ELSE << >>, 1)

\* show_ports.py parse_ports: the except clause ends the loop at the first raise
RECURSIVE show_ports_parse_ports_from(_, _)
show_ports_parse_ports_from(port_list, k) ==
    IF k > Len(port_list) THEN << >>
    ELSE LET port == port_list[k]
             port_name == DictGet(port, "port-id")
             v == show_ports_is_valid_port(port_name, DictGet(port, "oper-state"), PortRate(port))
         IN IF v = "raise" THEN << >>
            ELSE IF v = "True"
            THEN <<Val(port_name)>> \o show_ports_parse_ports_from(port_list, k + 1)
            ELSE show_ports_parse_ports_from(port_list, k + 1)

show_ports_parse_ports(port_data) ==
    show_ports_parse_ports_from(
        IF "port" \in DOMAIN port_data THEN port_data["port"] ELSE << >>, 1)

\* get_secrets_for_object is not defined in get_disabled_port.py: the call
\* either raises (secrets_raises) or returns what the deployment provides
NokiaInterfaceSelector_credentials(i) ==
    LET ssh == IF "SSH" \in DOMAIN i.secrets THEN i.secrets["SSH"] ELSE EmptyDict
    IN [username |-> DictGet(ssh, "Username"), password |-> DictGet(ssh, "Password")]

NokiaInterfaceSelector_host(device) ==
    IF ~IsNone(device.primary_ip)
    THEN Some(SplitFirst(Val(device.primary_ip), "/"))
    ELSE None

NokiaInterfaceSelector_interface_choices_prepare(i) ==
    IF i.data \in {"no data", "no device key", "device None"}
    THEN Choices("no device", "none", << >>)
    ELSE LET host == NokiaInterfaceSelector_host(i.device)
             cred == NokiaInterfaceSelector_credentials(i)
         IN IF IsNone(host) \/ Val(host) = << >>
            THEN Choices("Device has no primary IP", "none", << >>)
            ELSE IF i.secrets_raises
            THEN RaisedExc("NameError")
            ELSE IF Falsy(cred.username) \/ Falsy(cred.password)
            THEN Choices("Missing SSH credentials in secrets", "none", << >>)
            ELSE ConnectWith([device_type |-> "nokia_sros", host |-> host,
                              username |-> cred.username, password |-> cred.password])

NokiaInterfaceSelector_interface_choices_commands(i) ==
    << [call |-> "send_command", text |-> <<"show port detail | display json">>] >>

NokiaInterfaceSelector_interface_choices_error(e) ==
    Choices("Error connecting to device", e, << >>)

\* json.loads(output) then parse_ports; a response is the JSON document it
\* encodes, or not JSON at all
NokiaInterfaceSelector_interface_choices_success(output) ==
    IF ~output.json
    THEN Choices("Error connecting to device", "JSONDecodeError", << >>)
    ELSE Choices("ports", "none", parse_ports(output.data))

NokiaInterfaceSelector_interface_choices_disconnects ==
    [success |-> FALSE, command_error |-> FALSE]

NokiaInterfaceSelector_run_prepare(i) ==
    LET host == NokiaInterfaceSelector_host(i.device)
        cred == NokiaInterfaceSelector_credentials(i)
    IN IF i.secrets_raises
       THEN RaisedExc("NameError")
       ELSE ConnectWith([device_type |-> "nokia_sros", host |-> host,
                         username |-> cred.username, password |-> cred.password])

NokiaInterfaceSelector_run_commands(i) ==
    IF i.commit
    THEN << [call |-> "send_config_set",
             text |-> << <<"configure port", i.interface_name, "no shutdown">> >>] >>
    ELSE << >>

NokiaInterfaceSelector_run_error(e) == Logged("failure", "Failed to enable interface", e)

NokiaInterfaceSelector_run_success(i) ==
    IF i.commit
    THEN Logged("success", "Enabled interface", "none")
    ELSE Logged("info", "[Dry-run] Would enable interface", "none")

NokiaInterfaceSelector_run_disconnects == [success |-> FALSE, command_error |-> FALSE]

show_ports_interface_choices_prepare(i) ==
    IF i.data \in {"no data", "no device key"}
    THEN Choices("no device", "none", << >>)
    ELSE IF i.data = "device None"
    THEN RaisedExc("AttributeError")
    ELSE LET host == NokiaInterfaceSelector_host(i.device)
         IN IF IsNone(host) \/ Val(host) = << >>
            THEN Choices("Device has no primary IP", "none", << >>)
            ELSE ConnectWith([device_type |-> "nokia_sros", host |-> host,
                              username |-> Some("admin"),
                              password |-> Some("your_password")])

show_ports_interface_choices_success(output) ==
    IF ~output.json
    THEN Choices("Error connecting to device", "JSONDecodeError", << >>)
    ELSE Choices("ports", "none", show_ports_parse_ports(output.data))

show_ports_run(i) == Logged("success", "Selected interface", "none")


\* ------------------------------------------------------------------------
\* junos_1.py: JunosInterfaceStatusJob and JunosInterfaceStatusJobWithEnvCreds
\* ------------------------------------------------------------------------
\* variant: the lifecycle status is not checked
JunosInterfaceStatusJob_eligibility_no_status(device) ==
    LET platform_name == IF ~IsNone(device.platform)
                         THEN Lower(Val(device.platform)) ELSE << >>
    IN IF ~Contains(platform_name, s_junos)
       THEN Some(Returned("ERROR: Device is not a Junos device", "none"))
       ELSE IF IsNone(device.primary_ip4) /\ IsNone(device.primary_ip6)
       THEN Some(Returned("ERROR: Device has no primary IP address configured", "none"))
       ELSE None

\* run, lines 35-50: the checks made before _get_interface_status is called
JunosInterfaceStatusJob_eligibility(device) ==
    LET platform_name == IF ~IsNone(device.platform)
                         THEN Lower(Val(device.platform)) ELSE << >>
    IN IF ~Contains(platform_name, s_junos)
       THEN Some(Returned("ERROR: Device is not a Junos device", "none"))
       ELSE IF device.status # "Active"
       THEN Some(Returned("ERROR: Device is not in Active status", "none"))
       ELSE IF IsNone(device.primary_ip4) /\ IsNone(device.primary_ip6)
       THEN Some(Returned("ERROR: Device has no primary IP address configured", "none"))
       ELSE None

JunosInterfaceStatusJob_device_ip(device) ==
    IF ~IsNone(device.primary_ip4)
    THEN SplitFirst(Val(device.primary_ip4), "/")
    ELSE SplitFirst(Val(device.primary_ip6), "/")

JunosInterfaceStatusJob_error(e) == Returned("ERROR: Error retrieving interface status", e)

JunosInterfaceStatusJob_prepare(i) ==
    LET err == JunosInterfaceStatusJob_eligibility(i.device)
    IN IF ~IsNone(err)
       THEN Val(err)
       ELSE ConnectWith([device_type |-> "juniper_junos",
                         host |-> Some(JunosInterfaceStatusJob_device_ip(i.device)),
                         username |-> Some("admin"),
                         password |-> Some("admin@123"),
                         timeout |-> 30, session_log |-> "netmiko_session.log"])

JunosInterfaceStatusJobWithEnvCreds_prepare(i) ==
    LET err == JunosInterfaceStatusJob_eligibility(i.device)
        username == IF "JUNOS_USERNAME" \in DOMAIN i.env
                    THEN i.env["JUNOS_USERNAME"] ELSE "admin"
        password == IF "JUNOS_PASSWORD" \in DOMAIN i.env
                    THEN i.env["JUNOS_PASSWORD"] ELSE ""
    IN IF ~IsNone(err)
       THEN Val(err)
       ELSE IF password = ""
       THEN JunosInterfaceStatusJob_error("JUNOS_PASSWORD environment variable not set")
       ELSE ConnectWith([device_type |-> "juniper_junos",
                         host |-> Some(JunosInterfaceStatusJob_device_ip(i.device)),
                         username |-> Some(username),
                         password |-> Some(password),
                         timeout |-> 30])

_generate_show_command(interface_name) == <<"show interfaces", interface_name, "terse">>

JunosInterfaceStatusJob_commands(i) ==
    << [call |-> "send_command", text |-> _generate_show_command(i.interface_name)],
       [call |-> "send_command", text |-> <<"show interfaces", i.interface_name>>] >>

status_line(lo, up_cond, down_cond) ==
    IF Contains(lo, up_cond) THEN "UP"
    ELSE IF Contains(lo, down_cond) THEN "DOWN"
    ELSE "Unknown"

_format_output(output_dict, i) ==
    LET main_output == Strip(output_dict.main_output)
        basic_info == Strip(output_dict.basic_info)
        lo == Lower(main_output)
        is_error == Contains(lo, s_error)
    IN [kind |-> "returned", msg |-> "INTERFACE STATUS REPORT", exc |-> "none",
        command |-> output_dict.command,
        sections |->
            IF is_error
            THEN << <<"ERROR RECEIVED FROM DEVICE:", main_output>> >>
            ELSE (IF main_output # << >>
                  THEN << <<"INTERFACE STATUS:", main_output>> >> ELSE << >>)
                 \o (IF basic_info # << >> /\ basic_info # main_output
                     THEN << <<"ADDITIONAL INTERFACE INFORMATION:", basic_info>> >>
                     ELSE << >>),
        physical_link |-> status_line(lo, s_link_up, s_link_down),
        protocol_status |-> status_line(lo, s_proto_up, s_proto_down),
        administrative_status |->
            IF Contains(lo, s_admin_down) \/ Contains(lo, s_administratively_down)
            THEN "DOWN (disabled)" ELSE "UP (enabled)"]

\* _get_interface_status returns the dict; run formats it
JunosInterfaceStatusJob_success(i, rs) ==
    _format_output([main_output |-> rs[1], basic_info |-> rs[2],
                    command |-> _generate_show_command(i.interface_name)], i)

\* `with ConnectHandler(...)`: the session is closed on every exit of the block
JunosInterfaceStatusJob_disconnects == [success |-> TRUE, command_error |-> TRUE]


\* ------------------------------------------------------------------------
\* What the device and the transport may answer
\* ------------------------------------------------------------------------
t_empty == <<>>
t_row == <<"1","/","1"," ","U","p"," ","D","o","w","n","\n">>
t_header == <<"P","o","r","t"," ","1","/","1","\n","1","/","1"," ","D","o","w","n"," ","U","p">>
t_link == <<"P","h","y","s","i","c","a","l"," ","l","i","n","k"," ","i","s"," ","U","p","\n">>
t_error == <<"e","r","r","o","r",":"," ","x">>
t_row_lc == <<"1","/","1"," ","u","p"," ","d","o","w","n","\n">>
t_terse == <<"1","/","1"," ","u","p"," ","d","o","w","n"," ","d","o","w","n">>
t_other == <<"2","/","2"," ","U","p"," ","U","p","\n">>
RawTexts == {t_empty, t_row, t_header, t_link, t_error, t_row_lc, t_terse, t_other}

p_lag == <<"l","a","g","1">>
p_up == <<"u","p">>
p_Down == <<"D","o","w","n">>
Port(name, state, rate) ==
    [k \in {"port-id", "admin-state", "oper-state", "ethernet"} |->
        CASE k = "port-id" -> name
          [] k = "ethernet" -> [r \in {"rate"} |-> rate]
          [] OTHER -> state]
PortNoState(name, rate) ==
    [k \in {"port-id", "ethernet"} |->
        IF k = "port-id" THEN name ELSE [r \in {"rate"} |-> rate]]
\* a port whose administrative and operational states differ
PortStates(name, admin, oper, rate) ==
    [k \in {"port-id", "admin-state", "oper-state", "ethernet"} |->
        CASE k = "port-id" -> name
          [] k = "ethernet" -> [r \in {"rate"} |-> rate]
          [] k = "admin-state" -> admin
          [] OTHER -> oper]
PortLists == { << >>,
               << PortStates(s_port, p_up, s_down, "rate-100g") >>,
               << Port(s_port, p_Down, "rate-100g"), Port(p_lag, s_down, "rate-100g") >>,
               << PortNoState(p_lag, "rate-100g"), Port(s_port, s_down, "rate-100g") >>,
               << Port(s_port, p_up, "rate-100g"), Port(s_port, s_down, "rate-10g") >> }
JsonOutputs == {[json |-> FALSE]}
               \cup {[json |-> TRUE, data |-> [k \in {"port"} |-> pl]] : pl \in PortLists}
               \cup {[json |-> TRUE, data |-> EmptyDict]}

ResponsesFor(cmd) ==
    IF cmd.text = <<"show port detail | display json">> THEN JsonOutputs ELSE RawTexts

\* ConnectHandler rejects a call without a host before any connection is made
ConnectOutcomes(params) ==
    IF IsNone(params.host) THEN {"Exception"} ELSE {"ok"} \cup ConnectExc

\* ------------------------------------------------------------------------
\* The jobs as one run each
\* ------------------------------------------------------------------------
Prepare(j, i) ==
    CASE j = "GetInterfaceStatus.run" -> GetInterfaceStatus_prepare(i)
      [] j = "JunosDisableInterface.run" -> JunosDisableInterface_prepare(i)
      [] j = "NokiaInterfaceSelector.interface_choices" ->
            NokiaInterfaceSelector_interface_choices_prepare(i)
      [] j = "NokiaInterfaceSelector.run" -> NokiaInterfaceSelector_run_prepare(i)
      [] j = "show_ports.interface_choices" -> show_ports_interface_choices_prepare(i)
      [] j = "show_ports.run" -> show_ports_run(i)
      [] j = "JunosInterfaceStatusJob.run" -> JunosInterfaceStatusJob_prepare(i)
      [] j = "JunosInterfaceStatusJobWithEnvCreds.run" ->
            JunosInterfaceStatusJobWithEnvCreds_prepare(i)

Commands(j, i) ==
    CASE j = "GetInterfaceStatus.run" -> GetInterfaceStatus_commands(i)
      [] j = "JunosDisableInterface.run" -> JunosDisableInterface_commands(i)
      [] j = "NokiaInterfaceSelector.run" -> NokiaInterfaceSelector_run_commands(i)
      [] j \in {"NokiaInterfaceSelector.interface_choices", "show_ports.interface_choices"} ->
            NokiaInterfaceSelector_interface_choices_commands(i)
      [] OTHER -> JunosInterfaceStatusJob_commands(i)

OnConnectError(j, e) ==
    CASE j = "GetInterfaceStatus.run" -> GetInterfaceStatus_connect_error(e)
      [] j = "JunosDisableInterface.run" -> JunosDisableInterface_connect_error(e)
      [] j = "NokiaInterfaceSelector.run" -> NokiaInterfaceSelector_run_error(e)
      [] j \in {"NokiaInterfaceSelector.interface_choices", "show_ports.interface_choices"} ->
            NokiaInterfaceSelector_interface_choices_error(e)
      [] OTHER -> JunosInterfaceStatusJob_error(e)

OnCommandError(j, e) ==
    CASE j = "GetInterfaceStatus.run" -> GetInterfaceStatus_command_error(e)
      [] j = "JunosDisableInterface.run" -> JunosDisableInterface_command_error(e)
      [] j = "NokiaInterfaceSelector.run" -> NokiaInterfaceSelector_run_error(e)
      [] j \in {"NokiaInterfaceSelector.interface_choices", "show_ports.interface_choices"} ->
            NokiaInterfaceSelector_interface_choices_error(e)
      [] OTHER -> JunosInterfaceStatusJob_error(e)

OnSuccess(j, i, rs) ==
    CASE j = "GetInterfaceStatus.run" -> GetInterfaceStatus_parse(i, rs[1])
      [] j = "JunosDisableInterface.run" -> JunosDisableInterface_success(i)
      [] j = "NokiaInterfaceSelector.run" -> NokiaInterfaceSelector_run_success(i)
      [] j = "NokiaInterfaceSelector.interface_choices" ->
            NokiaInterfaceSelector_interface_choices_success(rs[1])
      [] j = "show_ports.interface_choices" -> show_ports_interface_choices_success(rs[1])
      [] OTHER -> JunosInterfaceStatusJob_success(i, rs)

Disconnects(j) ==
    CASE j = "GetInterfaceStatus.run" -> GetInterfaceStatus_disconnects
      [] j = "JunosDisableInterface.run" -> JunosDisableInterface_disconnects
      [] j = "NokiaInterfaceSelector.run" -> NokiaInterfaceSelector_run_disconnects
      [] j \in {"NokiaInterfaceSelector.interface_choices", "show_ports.interface_choices"} ->
            NokiaInterfaceSelector_interface_choices_disconnects
      [] OTHER -> JunosInterfaceStatusJob_disconnects

\* Connecting -> Failed, by the exception ConnectHandler raised
ConnectFailure(e) ==
    CASE e = "NetmikoTimeoutException" -> "ConnectTimeout"
      [] e = "NetmikoAuthenticationException" -> "AuthRejected"
      [] OTHER -> "ConnectError"

FailedConnect == {"ConnectTimeout", "AuthRejected", "ConnectError"}

\* the index of the command the run submits next
NextCommand(rs) == Len(rs) + 1

\* variant: a failed ConnectHandler call is tried again
AfterConnectError_retry == "start"

\* where the run goes after a failed ConnectHandler call
AfterConnectError == "done"

\* The run up to its ConnectHandler call, or to its end when it does not get there
Start ==
    /\ pc = "start"
    /\ job \in SessionJobs \cup {"show_ports.run"}
    /\ LET p == Prepare(job, inp)
       IN IF p.kind = "connect"
          THEN /\ connects' = Append(connects, p.params)
               /\ sess' = "Connecting"
               /\ pc' = "connecting"
               /\ UNCHANGED result
          ELSE /\ result' = p
               /\ pc' = "done"
               /\ UNCHANGED <<connects, sess>>
    /\ UNCHANGED <<job, inp, sent, responses, idx, findings, stats>>

\* ConnectHandler returns a session; a run with nothing to send ends here
ConnectSucceeds ==
    /\ pc = "connecting"
    /\ "ok" \in ConnectOutcomes(connects[Len(connects)])
    /\ IF Commands(job, inp) # << >>
       THEN /\ sess' = "Authenticated"
            /\ pc' = "send"
            /\ UNCHANGED result
       ELSE /\ sess' = IF Disconnects(job).success THEN "Closed" ELSE "Authenticated"
            /\ result' = OnSuccess(job, inp, responses)
            /\ pc' = "done"
    /\ UNCHANGED <<job, inp, connects, sent, responses, idx, findings, stats>>

\* ConnectHandler raises
ConnectFails ==
    /\ pc = "connecting"
    /\ \E e \in ConnectOutcomes(connects[Len(connects)]) \ {"ok"} :
          /\ result' = IF AfterConnectError = "done" THEN OnConnectError(job, e) ELSE result
          /\ sess' = ConnectFailure(e)
          /\ pc' = AfterConnectError
    /\ UNCHANGED <<job, inp, connects, sent, responses, idx, findings, stats>>

\* variant: the next command is submitted without waiting for the response
SendCommand_pipelined ==
    /\ pc \in {"send", "waiting"}
    /\ Len(sent) < Len(Commands(job, inp))
    /\ sent' = Append(sent, Commands(job, inp)[Len(sent) + 1])
    /\ sess' = "Busy"
    /\ pc' = "waiting"
    /\ UNCHANGED <<job, inp, connects, responses, result, idx, findings, stats>>

\* send_command / send_config_set is called
SendCommand ==
    /\ pc = "send"
    /\ sent' = Append(sent, Commands(job, inp)[NextCommand(responses)])
    /\ sess' = "Busy"
    /\ pc' = "waiting"
    /\ UNCHANGED <<job, inp, connects, responses, result, idx, findings, stats>>

\* the call returns the raw response; after the last one the run finishes
CommandReturns ==
    /\ pc = "waiting"
    /\ \E r \in ResponsesFor(sent[Len(sent)]) :
          LET rs == Append(responses, r)
          IN /\ responses' = rs
             /\ IF Len(rs) < Len(Commands(job, inp))
                THEN /\ sess' = "Authenticated"
                     /\ pc' = "send"
                     /\ UNCHANGED result
                ELSE /\ sess' = IF Disconnects(job).success THEN "Closed" ELSE "Authenticated"
                     /\ result' = OnSuccess(job, inp, rs)
                     /\ pc' = "done"
    /\ UNCHANGED <<job, inp, connects, sent, idx, findings, stats>>

\* variant: a failed command is submitted again
CommandFails_retry ==
    /\ pc = "waiting"
    /\ sess' = "Authenticated"
    /\ pc' = "send"
    /\ UNCHANGED <<job, inp, connects, sent, responses, result, idx, findings, stats>>

\* the call raises: the transport dropped or the command timed out
CommandFails ==
    /\ pc = "waiting"
    /\ \E e \in CommandExc :
          /\ result' = OnCommandError(job, e)
          /\ sess' = IF Disconnects(job).command_error THEN "Closed" ELSE "TransportLost"
          /\ pc' = "done"
    /\ UNCHANGED <<job, inp, connects, sent, responses, idx, findings, stats>>


\* ------------------------------------------------------------------------
\* data_quality.py: the compliance jobs
\* ------------------------------------------------------------------------
ComplianceJobs == {"VerifyManagementIP.run", "VerifyHostnames.run",
                   "VerifyPrimaryIP.run", "VerifyHasRack.run"}

\* variant: each filter is applied to Device.objects.all() anew, so only the
\* last filter provided narrows the result
filter_devices_last_wins(all, location, device_role, device_type) ==
    LET d1 == IF location # {}
              THEN SelectSeq(all, LAMBDA d : d.location \in location) ELSE all
        d2 == IF device_role # {}
              THEN SelectSeq(all, LAMBDA d : d.role \in device_role) ELSE d1
        d3 == IF device_type # {}
              THEN SelectSeq(all, LAMBDA d : d.device_type \in device_type) ELSE d2
    IN d3

\* Device.objects.all() narrowed by each non-empty filter in turn
filter_devices(all, location, device_role, device_type) ==
    LET d1 == IF location # {}
              THEN SelectSeq(all, LAMBDA d : d.location \in location) ELSE all
        d2 == IF device_role # {}
              THEN SelectSeq(d1, LAMBDA d : d.role \in device_role) ELSE d1
        d3 == IF device_type # {}
              THEN SelectSeq(d2, LAMBDA d : d.device_type \in device_type) ELSE d2
    IN d3

\* re.search(pattern, name): an invalid pattern raises re.error, a name of
\* None raises TypeError; ".*" matches any name, a literal matches as a substring
re_search(pattern, name) ==
    IF pattern.kind = "invalid" \/ IsNone(name) THEN "raise"
    ELSE IF pattern.kind = "any" THEN "match"
    ELSE IF Contains(Val(name), pattern.text) THEN "match"
    ELSE "no match"

\* variant: the device's name is tested in place of its primary address
VerifyManagementIP_check_by_name(device) ==
    IF ~IsNone(device.name) THEN "Pass" ELSE "Fail"

VerifyManagementIP_check(device) ==
    IF ~IsNone(device.primary_ip) THEN "Pass" ELSE "Fail"

VerifyHostnames_check(hostname_regex, device) ==
    LET m == re_search(hostname_regex, device.name)
    IN IF m = "raise" THEN "raise" ELSE IF m = "match" THEN "Pass" ELSE "Fail"

\* variant: every virtual-chassis member is skipped, the master included
VerifyPrimaryIP_check_skip_master(device) ==
    IF ~IsNone(device.virtual_chassis)
    THEN "skip"
    ELSE IF ~IsNone(device.primary_ip) THEN "Pass" ELSE "Fail"

VerifyPrimaryIP_check(device) ==
    IF ~IsNone(device.virtual_chassis) /\ Val(device.virtual_chassis).master_id # device.id
    THEN "skip"
    ELSE IF ~IsNone(device.primary_ip) THEN "Pass" ELSE "Fail"

VerifyHasRack_check(device) ==
    IF ~IsNone(device.rack) THEN "Pass" ELSE "Fail"

Check(j, i, device) ==
    CASE j = "VerifyManagementIP.run" -> VerifyManagementIP_check(device)
      [] j = "VerifyHostnames.run" -> VerifyHostnames_check(i.hostname_regex, device)
      [] j = "VerifyPrimaryIP.run" -> VerifyPrimaryIP_check(device)
      [] j = "VerifyHasRack.run" -> VerifyHasRack_check(device)

Selected(i) == filter_devices(i.inventory, i.location, i.device_role, i.device_type)

\* devices = filter_devices(...); the list of failing names starts empty
ComplianceStart ==
    /\ pc = "start"
    /\ job \in ComplianceJobs
    /\ pc' = "loop"
    /\ stats' = [missing |-> << >>]
    /\ UNCHANGED <<job, inp, sess, connects, sent, responses, result, idx, findings>>

\* variant: the address test comes before the virtual-chassis `continue`, so a
\* skipped member without an address still reaches the list of failing names
ComplianceDevice_count_skipped ==
    /\ pc = "loop"
    /\ job \in ComplianceJobs
    /\ idx < Len(Selected(inp))
    /\ LET device == Selected(inp)[idx + 1]
           v == Check(job, inp, device)
       IN /\ idx' = idx + 1
          /\ IF v = "raise"
             THEN /\ result' = RaisedExc("re.search")
                  /\ pc' = "done"
                  /\ UNCHANGED <<findings, stats>>
             ELSE /\ UNCHANGED <<result, pc>>
                  /\ findings' = IF v = "skip" THEN findings
                                 ELSE Append(findings, [device |-> device.id, verdict |-> v])
                  /\ stats' = IF v = "Fail" \/ (v = "skip" /\ IsNone(device.primary_ip))
                              THEN [stats EXCEPT !.missing = Append(@, device.name)]
                              ELSE stats
    /\ UNCHANGED <<job, inp, sess, connects, sent, responses>>

\* one iteration of `for device in devices`
ComplianceDevice ==
    /\ pc = "loop"
    /\ job \in ComplianceJobs
    /\ idx < Len(Selected(inp))
    /\ LET device == Selected(inp)[idx + 1]
           v == Check(job, inp, device)
       IN /\ idx' = idx + 1
          /\ IF v = "raise"
             THEN /\ result' = RaisedExc("re.search")
                  /\ pc' = "done"
                  /\ UNCHANGED <<findings, stats>>
             ELSE /\ UNCHANGED <<result, pc>>
                  /\ findings' = IF v = "skip" THEN findings
                                 ELSE Append(findings, [device |-> device.id, verdict |-> v])
                  /\ stats' = IF v = "Fail"
                              THEN [stats EXCEPT !.missing = Append(@, device.name)]
                              ELSE stats
    /\ UNCHANGED <<job, inp, sess, connects, sent, responses>>

\* variant: the failing names are listed last first
ComplianceSummary_reversed ==
    /\ pc = "loop"
    /\ job \in ComplianceJobs
    /\ idx = Len(Selected(inp))
    /\ result' = IF stats.missing # << >>
                 THEN [kind |-> "logged", level |-> "warning", msg |-> "Summary",
                       exc |-> "none", count |-> Len(stats.missing),
                       names |-> [k \in DOMAIN stats.missing |->
                                     stats.missing[Len(stats.missing) + 1 - k]]]
                 ELSE [kind |-> "logged", level |-> "info", msg |-> "All devices pass",
                       exc |-> "none", count |-> 0, names |-> << >>]
    /\ pc' = "done"
    /\ UNCHANGED <<job, inp, sess, connects, sent, responses, idx, findings, stats>>

\* the summary logged after the loop
ComplianceSummary ==
    /\ pc = "loop"
    /\ job \in ComplianceJobs
    /\ idx = Len(Selected(inp))
    /\ result' = IF stats.missing # << >>
                 THEN [kind |-> "logged", level |-> "warning", msg |-> "Summary",
                       exc |-> "none", count |-> Len(stats.missing), names |-> stats.missing]
                 ELSE [kind |-> "logged", level |-> "info", msg |-> "All devices pass",
                       exc |-> "none", count |-> 0, names |-> << >>]
    /\ pc' = "done"
    /\ UNCHANGED <<job, inp, sess, connects, sent, responses, idx, findings, stats>>


\* ------------------------------------------------------------------------
\* import_csv.py: SpreadsheetImportJob
\* ------------------------------------------------------------------------
\* _clean_data: dropna on the two key columns, then str.strip on both
_clean_data(df) ==
    LET kept == SelectSeq(df, LAMBDA r : ~IsNone(r.device) /\ ~IsNone(r.interface))
    IN [k \in 1..Len(kept) |-> [device |-> Strip(Val(kept[k].device)),
                                interface |-> Strip(Val(kept[k].interface))]]

CharRank(c) == IF \E n \in 1..26 : LowerChars[n] = c
               THEN CHOOSE n \in 1..26 : LowerChars[n] = c ELSE 0

RECURSIVE StrLess(_, _)
StrLess(a, b) ==
    IF a = << >> THEN b # << >>
    ELSE IF b = << >> THEN FALSE
    ELSE IF a[1] = b[1] THEN StrLess(Tail(a), Tail(b))
    ELSE CharRank(a[1]) < CharRank(b[1])

RECURSIVE SortedKeys(_)
SortedKeys(S) ==
    IF S = {} THEN << >>
    ELSE LET m == CHOOSE x \in S : \A y \in S \ {x} : StrLess(x, y)
         IN <<m>> \o SortedKeys(S \ {m})

\* df.groupby(device_name_column): the group keys in sorted order
device_groups(df) == SortedKeys({df[k].device : k \in DOMAIN df})
group_rows(df, device_name) == SelectSeq(df, LAMBDA r : r.device = device_name)

\* variant: a missing device is created and saved in a dry run too
_process_device_ignoring_dry_run(devices, device_name, o, save_raises) ==
    IF device_name \in devices
    THEN [raised |-> FALSE, device |-> Some(device_name), device_created |-> FALSE,
          devices |-> devices, saves |-> 0]
    ELSE IF ~o.create_missing_devices
    THEN [raised |-> FALSE, device |-> None, device_created |-> FALSE,
          devices |-> devices, saves |-> 0]
    ELSE IF save_raises
    THEN [raised |-> TRUE, device |-> None, device_created |-> FALSE,
          devices |-> devices, saves |-> 1]
    ELSE [raised |-> FALSE, device |-> Some(device_name), device_created |-> TRUE,
          devices |-> devices \cup {device_name}, saves |-> 1]

\* _process_device; save_raises: validated_save raises
_process_device(devices, device_name, o, save_raises) ==
    IF device_name \in devices
    THEN [raised |-> FALSE, device |-> Some(device_name), device_created |-> FALSE,
          devices |-> devices, saves |-> 0]
    ELSE IF ~o.create_missing_devices
    THEN [raised |-> FALSE, device |-> None, device_created |-> FALSE,
          devices |-> devices, saves |-> 0]
    ELSE IF o.dry_run
    THEN [raised |-> FALSE, device |-> None, device_created |-> TRUE,
          devices |-> devices, saves |-> 0]
    ELSE IF save_raises
    THEN [raised |-> TRUE, device |-> None, device_created |-> FALSE,
          devices |-> devices, saves |-> 1]
    ELSE [raised |-> FALSE, device |-> Some(device_name), device_created |-> TRUE,
          devices |-> devices \cup {device_name}, saves |-> 1]

\* _process_interfaces from row k on; acc carries the counters, the interface
\* store and the number of save calls made; the fail_at-th save call raises
RECURSIVE _process_interfaces_from(_, _, _, _, _, _)
_process_interfaces_from(device, rows, k, o, fail_at, acc) ==
    IF k > Len(rows) \/ acc.raised THEN acc
    ELSE LET interface_name == rows[k].interface
             key == <<device, interface_name>>
             raises == acc.saves + 1 = fail_at
             next ==
               IF key \in acc.interfaces
               THEN IF o.update_existing
                    THEN IF ~o.dry_run /\ raises
                         THEN [acc EXCEPT !.raised = TRUE, !.saves = @ + 1]
                         ELSE [acc EXCEPT !.updated = @ + 1,
                                          !.saves = IF o.dry_run THEN @ ELSE @ + 1,
                                          !.messages = Append(@, <<"Updated interface", interface_name>>)]
                    ELSE [acc EXCEPT !.skipped = @ + 1,
                                     !.messages = Append(@, <<"Skipped existing interface", interface_name>>)]
               ELSE IF ~o.create_missing_interfaces
                    THEN [acc EXCEPT !.skipped = @ + 1]
                    ELSE IF o.dry_run
                    THEN [acc EXCEPT !.created = @ + 1,
                                     !.messages = Append(@, <<"DRY RUN: Would create interface", interface_name>>)]
                    ELSE IF raises
                    THEN [acc EXCEPT !.raised = TRUE, !.saves = @ + 1]
                    ELSE [acc EXCEPT !.created = @ + 1, !.saves = @ + 1,
                                     !.interfaces = @ \cup {key},
                                     !.messages = Append(@, <<"Created interface", interface_name>>)]
         IN _process_interfaces_from(device, rows, k + 1, o, fail_at, next)

_process_interfaces(device, rows, interfaces, o, fail_at) ==
    _process_interfaces_from(device, rows, 1, o, fail_at,
        [created |-> 0, updated |-> 0, skipped |-> 0, messages |-> << >>,
         interfaces |-> interfaces, saves |-> 0, raised |-> FALSE])

\* one iteration of the loop of _process_data over the device groups
_process_group(st, device_name, rows, o, save_raises, fail_at) ==
    LET pd == _process_device(st.devices, device_name, o, save_raises)
        s1 == [st EXCEPT !.devices = pd.devices, !.device_saves = @ + pd.saves]
        err == <<"Error processing device", device_name>>
    IN IF pd.raised
       THEN [s1 EXCEPT !.errors = Append(@, err)]
       ELSE LET s2 == IF pd.device_created
                      THEN [s1 EXCEPT !.devices_created = @ + 1,
                                      !.summary = Append(@, <<"Created device", device_name>>)]
                      ELSE [s1 EXCEPT !.devices_found = @ + 1]
            IN IF IsNone(pd.device)
               THEN s2
               ELSE LET r == _process_interfaces(Val(pd.device), rows, s2.interfaces, o, fail_at)
                        s3 == [s2 EXCEPT !.interfaces = r.interfaces,
                                         !.interface_saves = @ + r.saves]
                    IN IF r.raised
                       THEN [s3 EXCEPT !.errors = Append(@, err)]
                       ELSE [s3 EXCEPT !.interfaces_created = @ + r.created,
                                       !.interfaces_updated = @ + r.updated,
                                       !.interfaces_skipped = @ + r.skipped,
                                       !.summary = @ \o r.messages]

\* run up to the loop: _read_spreadsheet, _validate_columns, _clean_data
ImportStart ==
    /\ pc = "start"
    /\ job = "SpreadsheetImportJob.run"
    /\ IF inp.file = "unsupported"
       THEN /\ result' = Returned("ERROR: Error processing spreadsheet", "ValueError")
            /\ pc' = "done"
            /\ UNCHANGED stats
       ELSE IF inp.df = << >>
       THEN /\ result' = Returned("ERROR: Could not read spreadsheet or file is empty", "none")
            /\ pc' = "done"
            /\ UNCHANGED stats
       ELSE IF inp.missing_columns
       THEN /\ result' = Returned("ERROR: Missing required columns", "none")
            /\ pc' = "done"
            /\ UNCHANGED stats
       ELSE /\ pc' = "groups"
            /\ stats' = [devices_created |-> 0, devices_found |-> 0,
                         interfaces_created |-> 0, interfaces_updated |-> 0,
                         interfaces_skipped |-> 0, errors |-> << >>, summary |-> << >>,
                         devices |-> inp.devices, interfaces |-> inp.interfaces,
                         device_saves |-> 0, interface_saves |-> 0]
            /\ UNCHANGED result
    /\ UNCHANGED <<job, inp, sess, connects, sent, responses, idx, findings>>

ImportGroup ==
    /\ pc = "groups"
    /\ LET df == _clean_data(inp.df)
           keys == device_groups(df)
       IN /\ idx < Len(keys)
          /\ \E save_raises \in BOOLEAN, fail_at \in 0..Len(df) :
                stats' = _process_group(stats, keys[idx + 1], group_rows(df, keys[idx + 1]),
                                        inp.options, save_raises, fail_at)
    /\ idx' = idx + 1
    /\ UNCHANGED <<job, inp, pc, sess, connects, sent, responses, result, findings>>

\* _format_results
ImportFinish ==
    /\ pc = "groups"
    /\ idx = Len(device_groups(_clean_data(inp.df)))
    /\ result' = [kind |-> "returned", msg |-> "SPREADSHEET IMPORT RESULTS", exc |-> "none",
                  dry_run_banner |-> inp.options.dry_run,
                  devices_created |-> stats.devices_created,
                  devices_found |-> stats.devices_found,
                  interfaces_created |-> stats.interfaces_created,
                  interfaces_updated |-> stats.interfaces_updated,
                  interfaces_skipped |-> stats.interfaces_skipped,
                  errors |-> stats.errors, summary |-> stats.summary]
    /\ pc' = "done"
    /\ UNCHANGED <<job, inp, sess, connects, sent, responses, idx, findings, stats>>


\* ------------------------------------------------------------------------
\* Inputs: arguments, inventory and environment of one run
\* ------------------------------------------------------------------------
s_sw == <<"s","w","1">>
s_rt == <<"r","t","1">>
s_a == <<"a">>
s_sp_a == <<" ","a">>
s_b == <<"b">>
s_e1 == <<"e","1">>
s_e2 == <<"e","2">>

OptIp4 == {None, Some(s_addr4)}
OptIp6 == {None, Some(s_addr6)}
IfaceNames == {s_empty, s_port}
SubDicts(keys, vals) == UNION {[K -> vals] : K \in SUBSET keys}
Secrets == {EmptyDict}
           \cup {[k \in {"SSH"} |-> d] : d \in SubDicts({"Username", "Password"}, {"", "netops"})}

Placements == {[location |-> "l1", role |-> "r1", device_type |-> "t1"],
               [location |-> "l2", role |-> "r1", device_type |-> "t1"],
               [location |-> "l1", role |-> "r2", device_type |-> "t2"]}
Filters == {[location |-> {}, device_role |-> {}, device_type |-> {}],
            [location |-> {"l1"}, device_role |-> {}, device_type |-> {}],
            [location |-> {"l1"}, device_role |-> {"r1"}, device_type |-> {}],
            [location |-> {"l1", "l2"}, device_role |-> {"r2"}, device_type |-> {"t2"}]}
Patterns == {[kind |-> "invalid"], [kind |-> "any"],
             [kind |-> "literal", text |-> <<"s","w">>]}

\* the k-th device of the inventory, with the attributes a
Dev(k, a) ==
    [id |-> k, name |-> a.name, primary_ip |-> a.primary_ip, rack |-> a.rack,
     virtual_chassis |-> CASE a.vc = "none" -> None
                           [] a.vc = "master" -> Some([master_id |-> k])
                           [] OTHER -> Some([master_id |-> 0]),
     location |-> a.place.location, role |-> a.place.role,
     device_type |-> a.place.device_type]

DeviceAttrs(j) ==
    [name : CASE j = "VerifyHostnames.run" -> {None, Some(s_sw), Some(s_rt)}
               [] j = "VerifyManagementIP.run" -> {Some(s_sw), Some(s_rt)}
               [] OTHER -> {Some(s_sw)},
     primary_ip : IF j \in {"VerifyManagementIP.run", "VerifyPrimaryIP.run"}
                  THEN OptIp4 ELSE {Some(s_addr4)},
     rack : IF j = "VerifyHasRack.run" THEN {None, Some("rack1")} ELSE {Some("rack1")},
     vc : IF j = "VerifyPrimaryIP.run" THEN {"none", "master", "member"} ELSE {"none"},
     place : Placements]

Inventories(j) ==
    UNION {{[k \in 1..n |-> Dev(k, f[k])] : f \in [1..n -> DeviceAttrs(j)]} : n \in 0..MaxDevices}

Sheets ==
    UNION {[1..n -> [device : {None, Some(s_a), Some(s_sp_a), Some(s_b)},
                     interface : {None, Some(s_e1), Some(s_e2)}]] : n \in 0..MaxRows}

Inputs(j) ==
    CASE j = "GetInterfaceStatus.run" ->
            [primary_ip4 : OptIp4, secrets_group : BOOLEAN, context_raises : BOOLEAN,
             context : SubDicts({"username", "password"}, {"netops"}),
             interface_name : IfaceNames]
      [] j = "JunosDisableInterface.run" ->
            [device : [id : {1}, primary_ip : OptIp4],
             interface : [device : {1, 2}, name : {s_port}],
             commit : BOOLEAN]
      [] j = "NokiaInterfaceSelector.interface_choices" ->
            {i \in [data : {"no data", "no device key", "device None", "device"},
                    device : [primary_ip : OptIp4],
                    secrets_raises : BOOLEAN, secrets : Secrets] :
                /\ i.data # "device" =>
                      IsNone(i.device.primary_ip) /\ ~i.secrets_raises /\ i.secrets = EmptyDict
                /\ i.secrets_raises => i.secrets = EmptyDict}
      [] j = "NokiaInterfaceSelector.run" ->
            {i \in [device : [primary_ip : OptIp4, name : {s_sw}],
                    secrets_raises : BOOLEAN, secrets : Secrets,
                    interface_name : IfaceNames, commit : BOOLEAN] :
                i.secrets_raises => i.secrets = EmptyDict}
      [] j = "show_ports.interface_choices" ->
            {i \in [data : {"no data", "no device key", "device None", "device"},
                    device : [primary_ip : OptIp4]] :
                i.data # "device" => IsNone(i.device.primary_ip)}
      [] j = "show_ports.run" -> [interface_name : IfaceNames]
      [] j = "JunosInterfaceStatusJob.run" ->
            [device : [platform : {None, Some(s_Junos), Some(s_sros)},
                       status : {"Active", "Planned"},
                       primary_ip4 : OptIp4, primary_ip6 : OptIp6],
             interface_name : IfaceNames]
      [] j = "JunosInterfaceStatusJobWithEnvCreds.run" ->
            [device : [platform : {None, Some(s_Junos), Some(s_sros)},
                       status : {"Active", "Planned"},
                       primary_ip4 : OptIp4, primary_ip6 : OptIp6],
             interface_name : IfaceNames,
             env : SubDicts({"JUNOS_USERNAME", "JUNOS_PASSWORD"}, {"", "netops"})]
      [] j \in ComplianceJobs ->
            {[inventory |-> inv, location |-> f.location, device_role |-> f.device_role,
              device_type |-> f.device_type, hostname_regex |-> p] :
                inv \in Inventories(j), f \in Filters,
                p \in IF j = "VerifyHostnames.run" THEN Patterns ELSE {[kind |-> "any"]}}
      [] j = "SpreadsheetImportJob.run" ->
            {i \in [file : {"csv", "unsupported"}, missing_columns : BOOLEAN, df : Sheets,
                    options : [create_missing_devices : BOOLEAN,
                               create_missing_interfaces : BOOLEAN,
                               update_existing : BOOLEAN, dry_run : BOOLEAN],
                    devices : {{}, {s_a}},
                    interfaces : {{}, {<<s_a, s_e1>>}}] :
                /\ i.interfaces # {} => i.devices # {}
                /\ (i.file = "unsupported" \/ i.missing_columns) =>
                      /\ ~(i.file = "unsupported" /\ i.missing_columns)
                      /\ Len(i.df) = 1 /\ i.df[1] = [device |-> Some(s_a), interface |-> Some(s_e1)]
                      /\ i.devices = {}
                      /\ \A k \in DOMAIN i.options : i.options[k]}

Jobs == SessionJobs \cup {"show_ports.run"} \cup ComplianceJobs \cup {"SpreadsheetImportJob.run"}

Init ==
    /\ job \in Jobs
    /\ inp \in Inputs(job)
    /\ pc = "start"
    /\ sess = "Idle"
    /\ connects = << >>
    /\ sent = << >>
    /\ responses = << >>
    /\ result = NoResult
    /\ idx = 0
    /\ findings = << >>
    /\ stats = << >>

Next ==
    \/ Start
    \/ ConnectSucceeds
    \/ ConnectFails
    \/ SendCommand
    \/ CommandReturns
    \/ CommandFails
    \/ ComplianceStart
    \/ ComplianceDevice
    \/ ComplianceSummary
    \/ ImportStart
    \/ ImportGroup
    \/ ImportFinish

Spec == Init /\ [][Next]_vars


\* ------------------------------------------------------------------------
\* Properties
\* ------------------------------------------------------------------------
OpenSession == {"Authenticated", "Busy", "TransportLost"}

\* C1: no run of a session job ends while a session it opened is still open.
C1_SessionClosedAtEnd ==
    (job \in SessionJobs /\ pc = "done") => sess \notin OpenSession

\* C2 (as stated): when a management-IP or primary-IP run has ended, the number
\* of per-device results equals the number of selected devices.
C2_OneResultPerDevice ==
    (job \in {"VerifyManagementIP.run", "VerifyPrimaryIP.run"} /\ pc = "done")
        => Len(findings) = Len(Selected(inp))

C2_Exempt(j, d) ==
    /\ j = "VerifyPrimaryIP.run"
    /\ ~IsNone(d.virtual_chassis)
    /\ Val(d.virtual_chassis).master_id # d.id

\* C2 (amended): at every point of a management-IP or primary-IP run, the
\* results are exactly one per device consumed so far, in order, except that
\* the primary-IP job gives none for a non-master virtual-chassis member; at
\* the end their number is N minus the number of exempt devices.
C2_OneResultPerNonExemptDevice ==
    job \in {"VerifyManagementIP.run", "VerifyPrimaryIP.run"} =>
        LET seen == SubSeq(Selected(inp), 1, idx)
            due == SelectSeq(seen, LAMBDA d : ~C2_Exempt(job, d))
        IN /\ Len(findings) = Len(due)
           /\ \A k \in 1..Len(due) : findings[k].device = due[k].id
           /\ pc = "done" => idx = Len(Selected(inp))

C2_Witness ==
    /\ job = "VerifyPrimaryIP.run"
    /\ pc = "done"
    /\ Len(Selected(inp)) = 2
    /\ Len(findings) = 1
    /\ \E k \in 1..2 : C2_Exempt(job, Selected(inp)[k])

\* C3: a loop over devices (or device groups) never ends early: when the run
\* has ended, every device of the batch has been consumed, and a run that
\* entered the loop ends with its summary, not with an uncaught error.
C3_BatchNeverAborted ==
    /\ (job \in ComplianceJobs /\ pc = "done") =>
            /\ idx = Len(Selected(inp))
            /\ result.kind # "raised"
    /\ (job = "SpreadsheetImportJob.run" /\ pc = "done" /\ stats # << >>) =>
            idx = Len(device_groups(_clean_data(inp.df)))

\* C4: every ConnectHandler call is made with a host that is present, by a run
\* whose interface name is present.
C4_ConnectOnlyAfterValidation ==
    \A k \in DOMAIN connects :
        /\ ~IsNone(connects[k].host)
        /\ Val(connects[k].host) # << >>
        /\ "interface_name" \in DOMAIN inp => inp.interface_name # << >>

CredentialJobs == {"GetInterfaceStatus.run", "NokiaInterfaceSelector.interface_choices",
                   "NokiaInterfaceSelector.run", "JunosInterfaceStatusJobWithEnvCreds.run"}

\* C5: a job that resolves credentials never calls ConnectHandler with an
\* absent or empty username or password, nor with a default standing in for an
\* absent one.
C5_CredentialsFailClosed ==
    job \in CredentialJobs =>
        \A k \in DOMAIN connects :
            /\ ~Falsy(connects[k].username)
            /\ ~Falsy(connects[k].password)
            /\ job = "JunosInterfaceStatusJobWithEnvCreds.run" =>
                  {"JUNOS_USERNAME", "JUNOS_PASSWORD"} \subseteq DOMAIN inp.env

JunosJobs == {"JunosInterfaceStatusJob.run", "JunosInterfaceStatusJobWithEnvCreds.run"}

C6_Eligible(d) ==
    /\ ~IsNone(d.platform)
    /\ \E n \in 0..(Len(Val(d.platform)) - 5) :
          Lower(SubSeq(Val(d.platform), n + 1, n + 5)) = s_junos
    /\ d.status = "Active"
    /\ (~IsNone(d.primary_ip4) \/ ~IsNone(d.primary_ip6))

\* C6: for a device that is not Junos, not Active or without a primary address
\* the status job never calls ConnectHandler and ends by returning an error.
C6_EligibilityBeforeSession ==
    (job \in JunosJobs /\ ~C6_Eligible(inp.device)) =>
        /\ connects = << >>
        /\ sess = "Idle"
        /\ pc \in {"start", "done"}
        /\ pc = "done" =>
              /\ result.kind = "returned"
              /\ result.msg \in {"ERROR: Device is not a Junos device",
                                 "ERROR: Device is not in Active status",
                                 "ERROR: Device has no primary IP address configured"}

C6_Witness ==
    /\ job = "JunosInterfaceStatusJob.run"
    /\ pc = "done"
    /\ inp.device.platform = Some(s_Junos)
    /\ inp.device.status = "Planned"
    /\ ~IsNone(inp.device.primary_ip4)
    /\ result.msg = "ERROR: Device is not in Active status"

C7_IsTimeout(r) ==
    r.msg = "Connection timed out." \/ r.exc = "NetmikoTimeoutException"

StatusFields == {"admin_state", "port_state", "physical_link", "protocol_status",
                 "administrative_status", "sections", "raw"}

C8_NoConnectRetry ==
    /\ Len(connects) <= 1
    /\ sess \in FailedConnect => (pc = "done" /\ sent = << >> /\ result # NoResult)

C8_Witness ==
    /\ job = "JunosDisableInterface.run"
    /\ pc = "done"
    /\ sess = "AuthRejected"
    /\ Len(connects) = 1

CommandFailed == pc = "done" /\ Len(sent) > Len(responses)

\* C9 (as stated): after a command failed, no further command was issued, it
\* was not retried, and the result hands the caller the responses collected
\* before the failure.
C9_PartialResponsesReturned ==
    (job \in SessionJobs /\ CommandFailed) =>
        /\ Len(sent) = Len(responses) + 1
        /\ responses # << >> =>
              ("responses" \in DOMAIN result /\ result.responses = responses)

\* C9 (amended): after a command failed, no further command was issued, it was
\* not retried, and the caller receives the failure only: the result carries
\* the exception and nothing of the responses collected before it.
C9_FailureOnlyReturned ==
    job \in SessionJobs =>
        /\ Len(sent) <= Len(responses) + 1
        /\ \A k \in DOMAIN sent : sent[k] = Commands(job, inp)[k]
        /\ CommandFailed =>
              /\ DOMAIN result \subseteq {"kind", "msg", "exc", "level", "choices"}
              /\ "choices" \in DOMAIN result => result.choices = << >>
              /\ result.kind \in {"returned", "raised", "logged"}
              /\ (result.exc \in CommandExc \/ result.kind = "raised")

C9_Witness ==
    /\ job = "JunosInterfaceStatusJob.run"
    /\ CommandFailed
    /\ Len(responses) = 1
    /\ Len(sent) = 2
    /\ result = JunosInterfaceStatusJob_error("Exception")

\* State part of C10: a command is submitted only on an Authenticated session with every
\* earlier response received, the session is Busy exactly while a response is
\* awaited, the commands go out in the given order, and a run that succeeds
\* has one response per command, the k-th being the answer to the k-th command.
C10_State ==
    job \in SessionJobs =>
        /\ Len(sent) \in {Len(responses), Len(responses) + 1}
        /\ (sess = "Busy") = (pc = "waiting")
        /\ pc = "waiting" => Len(sent) = Len(responses) + 1
        /\ \A k \in DOMAIN sent : sent[k] = Commands(job, inp)[k]
        /\ (pc = "done" /\ Len(sent) = Len(responses) /\ connects # << >>
               /\ sess \notin FailedConnect) =>
              Len(responses) = Len(Commands(job, inp))
        /\ (job \in JunosJobs /\ pc = "done" /\ Len(responses) = 2) =>
              /\ sent[1].text = <<"show interfaces", inp.interface_name, "terse">>
              /\ sent[2].text = <<"show interfaces", inp.interface_name>>
              /\ Strip(responses[1]) # << >> =>
                    /\ result.sections # << >>
                    /\ result.sections[1][2] = Strip(responses[1])

\* Step part of C10: a step that submits a command starts from an Authenticated
\* session with no response outstanding, submits one command and makes the
\* session Busy.
C10_Step ==
    sent' # sent =>
        /\ sess = "Authenticated"
        /\ Len(responses) = Len(sent)
        /\ sess' = "Busy"
        /\ Len(sent') = Len(sent) + 1
        /\ responses' = responses

\* C10: commands on one session are issued strictly one after the other in
\* the given order (C10_State in every state, C10_Step at every submission).
C10_SequentialCommands == [](C10_State) /\ [][C10_Step]_vars

C10_Witness ==
    /\ job = "JunosInterfaceStatusJob.run"
    /\ pc = "done"
    /\ Len(responses) = 2
    /\ responses[1] # responses[2]
    /\ sess = "Closed"


\* ------------------------------------------------------------------------
\* Parsing of the device's answer (show_port.py 68-85, junos_1.py 153-169)
\* ------------------------------------------------------------------------
IsPrefix(p, s) == Len(p) <= Len(s) /\ SubSeq(s, 1, Len(p)) = p

\* the line is a row of the interface: its first column is the interface name
\* (or a unit of it), and it has the name and `cols` state columns at least
RowOf(line, name, cols) ==
    LET parts == Split(line)
    IN /\ Len(parts) >= 1 + cols
       /\ IsPrefix(name, parts[1])

\* the job ran its commands to the end and reported on the device's answer
Parsed ==
    /\ pc = "done"
    /\ job \in {"GetInterfaceStatus.run"} \cup JunosJobs
    /\ Len(responses) = Len(Commands(job, inp))
    /\ Len(responses) >= 1
    /\ result.kind \in {"logged", "returned"}
    /\ result.exc = "none"

\* the report names no state of the interface at all
AllUnknown ==
    IF job = "GetInterfaceStatus.run"
    THEN "admin_state" \notin DOMAIN result /\ "port_state" \notin DOMAIN result
    ELSE /\ "physical_link" \in DOMAIN result => result.physical_link = "Unknown"
         /\ "protocol_status" \in DOMAIN result => result.protocol_status = "Unknown"
         /\ "administrative_status" \in DOMAIN result =>
                result.administrative_status \notin {"UP (enabled)", "DOWN (disabled)"}

\* C11: when the answer has no row of the requested interface, or only rows
\* with fewer than the two state columns the parser needs, the administrative,
\* link and protocol states are all Unknown and nothing is raised: no state is
\* reported Up or Down without a row that says so.
C11_UnknownWithoutEvidence ==
    (Parsed /\ ~ \E k \in DOMAIN SplitLines(responses[1]) :
                    RowOf(SplitLines(responses[1])[k], inp.interface_name, 2))
        => AllUnknown

\* the states of the interface that a report carries
StatusOf(r) ==
    IF job = "GetInterfaceStatus.run"
    THEN IF "admin_state" \in DOMAIN r THEN <<r.admin_state, r.port_state>> ELSE << >>
    ELSE IF "physical_link" \in DOMAIN r
         THEN <<r.physical_link, r.protocol_status, r.administrative_status>>
         ELSE << >>

\* C12: the state tokens are normalised in letter case before they are
\* compared and stored, so an answer that differs from the one received only
\* in the letter case of its tokens ("up", "Up", "UP") yields the same
\* reported states.
C12_CaseInsensitiveStatus ==
    Parsed =>
        \A t \in RawTexts :
            Lower(t) = Lower(responses[1]) =>
                StatusOf(OnSuccess(job, inp, [responses EXCEPT ![1] = t])) = StatusOf(result)

\* the lines of the answer whose first column is the requested interface
RowsOf(text, name) ==
    {k \in DOMAIN SplitLines(text) : RowOf(SplitLines(text)[k], name, 0)}

FirstOf(S) == CHOOSE k \in S : \A m \in S : k <= m

\* C13: the status is read from the first line whose first whitespace-delimited
\* token equals or is prefixed by the requested interface name; a line that
\* only contains the name elsewhere (a header, an echoed command, a later
\* column) is not the status line and does not end the search.
C13_FirstColumnSelectsRow ==
    (Parsed /\ job = "GetInterfaceStatus.run" /\ inp.interface_name # << >>) =>
        LET rows == RowsOf(responses[1], inp.interface_name)
            parts == Split(SplitLines(responses[1])[FirstOf(rows)])
        IN IF rows # {} /\ Len(parts) >= 3
           THEN StatusOf(result) = <<parts[2], parts[3]>>
           ELSE StatusOf(result) = << >>

\* a state token, whatever its letter case, as the state it names
StateWord(tok) ==
    IF Lower(tok) = p_up THEN "UP" ELSE IF Lower(tok) = s_down THEN "DOWN" ELSE "Unknown"

\* the three states a report gives; a state it does not give is Unknown
ReportedStates(r) ==
    IF job = "GetInterfaceStatus.run"
    THEN [admin |-> IF "admin_state" \in DOMAIN r THEN StateWord(r.admin_state) ELSE "Unknown",
          link |-> IF "port_state" \in DOMAIN r THEN StateWord(r.port_state) ELSE "Unknown",
          protocol |-> IF "protocol_state" \in DOMAIN r
                       THEN StateWord(r.protocol_state) ELSE "Unknown"]
    ELSE [admin |-> CASE r.administrative_status = "UP (enabled)" -> "UP"
                      [] r.administrative_status = "DOWN (disabled)" -> "DOWN"
                      [] OTHER -> "Unknown",
          link |-> r.physical_link,
          protocol |-> r.protocol_status]

\* C14: when the row of the interface has the name and three state columns,
\* the administrative state is read from the first column after the name, the
\* link state from the second and the protocol state from the third:
\* 'ge-0/0/0 up down down' is reported as admin Up, link Down, protocol Down.
C14_StatesFromFixedColumns ==
    (Parsed /\ inp.interface_name # << >>) =>
        LET rows == RowsOf(responses[1], inp.interface_name)
            parts == Split(SplitLines(responses[1])[FirstOf(rows)])
        IN (rows # {} /\ Len(parts) >= 4) =>
              ReportedStates(result) = [admin |-> StateWord(parts[2]),
                                        link |-> StateWord(parts[3]),
                                        protocol |-> StateWord(parts[4])]


\* ------------------------------------------------------------------------
\* Compliance checks (data_quality.py)
\* ------------------------------------------------------------------------
\* the device a finding is about
FindingDevice(k) == inp.inventory[findings[k].device]

NonMasterMember(device) ==
    /\ ~IsNone(device.virtual_chassis)
    /\ Val(device.virtual_chassis).master_id # device.id

\* C16: the primary-address check gives no finding for a virtual-chassis
\* member that is not the master and does not count it in the summary; every
\* other device gets exactly one finding, Pass exactly when its primary
\* address is set.
C16_PrimaryIPVerdicts ==
    job = "VerifyPrimaryIP.run" =>
        /\ \A n \in 1..idx :
              LET device == Selected(inp)[n]
                  about == {k \in DOMAIN findings : findings[k].device = device.id}
              IN IF NonMasterMember(device)
                 THEN about = {}
                 ELSE /\ Cardinality(about) = 1
                      /\ \A k \in about :
                            findings[k].verdict =
                                IF IsNone(device.primary_ip) THEN "Fail" ELSE "Pass"
        /\ pc = "done" =>
              result.count =
                  Cardinality({n \in DOMAIN Selected(inp) :
                                  /\ ~NonMasterMember(Selected(inp)[n])
                                  /\ IsNone(Selected(inp)[n].primary_ip)})

\* a member without an address is passed over, the master without one fails
C16_Witness ==
    /\ job = "VerifyPrimaryIP.run"
    /\ pc = "done"
    /\ Len(Selected(inp)) = 2
    /\ NonMasterMember(Selected(inp)[1]) /\ IsNone(Selected(inp)[1].primary_ip)
    /\ ~NonMasterMember(Selected(inp)[2]) /\ ~IsNone(Selected(inp)[2].virtual_chassis)
    /\ IsNone(Selected(inp)[2].primary_ip)
    /\ Len(findings) = 1
    /\ findings[1] = [device |-> Selected(inp)[2].id, verdict |-> "Fail"]
    /\ result.count = 1

\* the device satisfies every filter that was provided
MatchesFilters(device, i) ==
    /\ i.location = {} \/ device.location \in i.location
    /\ i.device_role = {} \/ device.role \in i.device_role
    /\ i.device_type = {} \/ device.device_type \in i.device_type

\* C17: filter_devices returns exactly the devices that satisfy every provided
\* filter (location, role and device type, each an inclusion list, combined
\* with AND); an empty filter constrains nothing, and with all three empty
\* every device is selected.  The devices a completed check has reported on
\* are those devices.
C17_FilterSelectsMatching ==
    job \in ComplianceJobs =>
        /\ Selected(inp) = SelectSeq(inp.inventory, LAMBDA d : MatchesFilters(d, inp))
        /\ (pc = "done" /\ result.exc = "none" /\ job # "VerifyPrimaryIP.run") =>
              /\ Len(findings) =
                    Cardinality({n \in DOMAIN inp.inventory :
                                    MatchesFilters(inp.inventory[n], inp)})
              /\ \A k \in DOMAIN findings : MatchesFilters(FindingDevice(k), inp)

\* two filters given; one device meets both, the other meets the role filter
\* only and is left out
C17_Witness ==
    /\ job \in ComplianceJobs
    /\ pc = "done"
    /\ inp.location # {} /\ inp.device_role # {}
    /\ Len(inp.inventory) = 2
    /\ \E n \in 1..2 : /\ inp.inventory[n].role \in inp.device_role
                       /\ inp.inventory[n].location \notin inp.location
    /\ Len(findings) = 1
    /\ MatchesFilters(FindingDevice(1), inp)

\* the findings that are failures, in the order they were collected
Failures == SelectSeq(findings, LAMBDA f : f.verdict = "Fail")

\* the place of a device's group in the order the groups are processed in
GroupIndex(device_name) ==
    CHOOSE k \in DOMAIN device_groups(_clean_data(inp.df)) :
        device_groups(_clean_data(inp.df))[k] = device_name

\* what a completed run reports is what was collected, in the order of collection
C18_State ==
    /\ (job \in ComplianceJobs /\ pc = "done" /\ result.exc = "none") =>
          /\ result.names = stats.missing
          /\ result.names = [k \in DOMAIN Failures |-> inp.inventory[Failures[k].device].name]
          /\ \A k, m \in DOMAIN findings : k < m => findings[k].device < findings[m].device
    /\ (job = "SpreadsheetImportJob.run" /\ pc = "done" /\ "summary" \in DOMAIN result) =>
          /\ result.summary = stats.summary
          /\ result.errors = stats.errors
          /\ \A k, m \in DOMAIN result.summary :
                (/\ k < m
                 /\ result.summary[k][1] = "Created device"
                 /\ result.summary[m][1] = "Created device") =>
                    GroupIndex(result.summary[k][2]) < GroupIndex(result.summary[m][2])

\* a step of the loop only appends to what was collected before
C18_Step ==
    /\ IsPrefix(findings, findings')
    /\ (job \in ComplianceJobs /\ pc = "loop") => IsPrefix(stats.missing, stats'.missing)
    /\ (job = "SpreadsheetImportJob.run" /\ pc = "groups") =>
          /\ IsPrefix(stats.summary, stats'.summary)
          /\ IsPrefix(stats.errors, stats'.errors)

\* C18: the collection of results is additive and keeps its order: an entry is
\* only ever appended, never removed or moved, so the summary lists the
\* devices in the order they were processed (the order the inventory was
\* iterated in, not an order sorted by name).
C18_ResultsAppendOnly == [](C18_State) /\ [][C18_Step]_vars

\* two failing devices, met in an order that sorting by name would reverse
C18_Witness ==
    /\ job = "VerifyManagementIP.run"
    /\ pc = "done"
    /\ Len(findings) = 2
    /\ result.names = <<Some(s_sw), Some(s_rt)>>
    /\ findings[1].device = 1 /\ findings[2].device = 2
    /\ inp.inventory[1].name = Some(s_sw)


\* ------------------------------------------------------------------------
\* Runs that must change nothing
\* ------------------------------------------------------------------------
\* C19: in a dry run of the import no inventory object is created or updated,
\* whatever the other options and the rows are: no device and no interface is
\* saved, and the devices and interfaces of the inventory stay as they were.
C19_DryRunSavesNothing ==
    (job = "SpreadsheetImportJob.run" /\ inp.options.dry_run /\ pc \in {"groups", "done"}
        /\ stats # << >>) =>
        /\ stats.device_saves = 0
        /\ stats.interface_saves = 0
        /\ stats.devices = inp.devices
        /\ stats.interfaces = inp.interfaces

\* a dry run that would have created a device and created or updated an interface
C19_Witness ==
    /\ job = "SpreadsheetImportJob.run"
    /\ pc = "done"
    /\ inp.options.dry_run
    /\ "dry_run_banner" \in DOMAIN result /\ result.dry_run_banner
    /\ result.devices_created = 1
    /\ result.interfaces_created + result.interfaces_updated >= 1
    /\ stats.devices = inp.devices

\* the jobs that take `commit` and change the device's configuration
ConfigJobs == {"NokiaInterfaceSelector.run", "JunosDisableInterface.run"}

\* C20: a configuration-changing job run with commit false sends no
\* configuration command to the device; one is sent only when commit is true.
C20_NoConfigWithoutCommit ==
    (job \in ConfigJobs /\ ~inp.commit) =>
        \A k \in DOMAIN sent : sent[k].call # "send_config_set"


\* ------------------------------------------------------------------------
\* The ports offered for selection (get_disabled_port.py, show_ports.py)
\* ------------------------------------------------------------------------
SelectorJobs == {"NokiaInterfaceSelector.interface_choices", "show_ports.interface_choices"}

\* a physical 100G port that is administratively down
Offered(port) ==
    /\ "port-id" \in DOMAIN port /\ port["port-id"] # << >>
    /\ "ethernet" \in DOMAIN port /\ "rate" \in DOMAIN port["ethernet"]
    /\ port["ethernet"]["rate"] = "rate-100g"
    /\ "admin-state" \in DOMAIN port /\ Lower(port["admin-state"]) = s_down
    /\ ~Contains(Lower(port["port-id"]), s_lag)
    /\ ~Contains(Lower(port["port-id"]), s_mgmt)

\* the port list of the JSON document the device answered with
AnsweredPorts ==
    IF "port" \in DOMAIN responses[1].data THEN responses[1].data["port"] ELSE << >>

\* C21: the choices offered are exactly the ports of the device's port list
\* with a non-empty name, rate 100G, administrative state down in any letter
\* case, and a name containing neither 'lag' nor 'mgmt', in port-list order; a
\* port entry without a state field is rejected and the ports after it are
\* still examined.
C21_ChoicesAreDisabled100GPorts ==
    (job \in SelectorJobs /\ pc = "done" /\ Len(responses) = 1 /\ responses[1].json) =>
        LET offered == SelectSeq(AnsweredPorts, Offered)
        IN result.choices = [k \in DOMAIN offered |-> offered[k]["port-id"]]


\* ------------------------------------------------------------------------
\* Accounting of the spreadsheet import (import_csv.py 198-349)
\* ------------------------------------------------------------------------
\* the rows the import works on and the device groups they form
ImportRows == _clean_data(inp.df)
ImportGroups == device_groups(ImportRows)

\* the rows of the devices whose interfaces are processed: the device exists,
\* or is created and saved by this run
RowsWithDevice ==
    {k \in DOMAIN ImportRows :
        \/ ImportRows[k].device \in inp.devices
        \/ inp.options.create_missing_devices /\ ~inp.options.dry_run}

\* C22: when the import has processed its G device groups, every group is
\* accounted for exactly once: devices_created + devices_found + the number
\* of errors is G; devices_found counts only devices that exist in the
\* inventory; and the interfaces created, updated and skipped add up to the
\* rows of the devices whose interfaces were processed.
C22_EveryGroupCountedOnce ==
    (job = "SpreadsheetImportJob.run" /\ pc = "done" /\ "devices_found" \in DOMAIN result) =>
        /\ result.devices_created + result.devices_found + Len(result.errors)
              = Len(ImportGroups)
        /\ result.devices_found
              <= Cardinality({k \in DOMAIN ImportGroups : ImportGroups[k] \in inp.devices})
        /\ result.errors = << >> =>
              result.interfaces_created + result.interfaces_updated
                  + result.interfaces_skipped = Cardinality(RowsWithDevice)


\* ------------------------------------------------------------------------
\* Outcomes of JunosDisableInterface.run (shutdown_interface.py 18-58)
\* ------------------------------------------------------------------------
DisableOutcomes ==
    {"Error: Interface does not belong to device", "Connection error",
     "Error during interface shutdown", "Interface has been disabled"}

\* C23: JunosDisableInterface.run opens no session when the interface does not
\* belong to the device; it reports the interface as disabled only after the
\* configuration commands were sent and answered without error; and every run
\* ends with exactly one of the ownership error, the connection error, the
\* shutdown error or the success.
C23_DisableOutcomes ==
    job = "JunosDisableInterface.run" =>
        /\ inp.interface.device # inp.device.id => (connects = << >> /\ sess = "Idle")
        /\ (pc = "done" /\ result.kind = "returned"
               /\ result.msg = "Interface has been disabled") =>
              /\ sent = JunosDisableInterface_commands(inp)
              /\ Len(responses) = Len(sent)
              /\ result.exc = "none"
        /\ pc = "done" =>
              /\ result.kind = "returned"
              /\ result.msg \in DisableOutcomes
              /\ result.msg = "Error: Interface does not belong to device"
                    <=> inp.interface.device # inp.device.id

====
